---- MODULE Spec2Model ----
(***************************************************************************)
(* Model of Utilities/parallel_tif_to_jpg_or_png.py:                       *)
(*   convert_single_tif   one conversion job run by a pool worker          *)
(*   convert_tif          list, filter, dispatch to the pool, join         *)
(*   process_specific_folders / __main__   the os.walk tree walker         *)
(* Strings are sequences of one-character strings, so that suffix tests,   *)
(* splitext, int() and sorted() are computed, not assumed.                 *)
(***************************************************************************)
EXTENDS Integers, Sequences, FiniteSets, TLC

VARIABLES
    \* ---- convert_tif and its worker pool ----
    source_files,   \* names found by os.listdir(source_folder)
    corrupt,        \* source files whose decoding/encoding raises
    output_format,  \* "jpg" or "png"
    overwrite,      \* the overwrite flag
    mod_value,      \* <<>> for None, <<s>> for the string s
    pc,             \* position of the convert_tif caller thread
    tif_files,      \* the local list tif_files
    dest_exists,    \* whether dest_folder exists
    dest_files,     \* dest_folder: file name -> source file it was encoded from
    futures,        \* the list futures: one record per submitted job
    fi,             \* index of the future whose result() is awaited
    log,            \* lines printed
    run,            \* number of the current convert_tif call on this folder
    dest_before,    \* dest_files when the current call began
    writes,         \* destination names written during the current call
    \* ---- process_specific_folders and __main__ ----
    root_directory, \* sys.argv[1] as given
    root_is_dir,    \* whether root_directory names an existing directory
    target_types,   \* the list target_types, as a set of names
    tree,           \* directories below root_directory: sequences of names
    wpc,            \* position of the walker
    stack,          \* directories os.walk has still to yield, next first
    cur,            \* the directory os.walk yielded last
    dirs,           \* the list dirs of the current iteration
    si,             \* index into dirs of the sub_dir loop
    visited,        \* directories yielded so far
    calls,          \* the paths convert_tif was called with, in order
    exit_status     \* "running", "0" (normal end) or "1" (uncaught exception)

cvars == <<source_files, corrupt, output_format, overwrite, mod_value, pc,
           tif_files, dest_exists, dest_files, futures, fi, log, run,
           dest_before, writes>>
wvars == <<root_directory, root_is_dir, target_types, tree, wpc, stack, cur,
           dirs, si, visited, calls, exit_status>>
vars == <<cvars, wvars>>

----------------------------------------------------------------------------
\* Bounds of the model
MaxFiles == 2
NumWorkers == 2
MaxRuns == 2
MaxDirs == 3
MaxDepth == 2

----------------------------------------------------------------------------
\* Strings

None == <<>>
Some(s) == <<s>>

Range(s) == {s[i] : i \in 1..Len(s)}

Ord(c) ==
    CASE c = "+" -> 43 [] c = "-" -> 45 [] c = "." -> 46 [] c = "/" -> 47
      [] c = "0" -> 48 [] c = "1" -> 49 [] c = "2" -> 50 [] c = "3" -> 51
      [] c = "4" -> 52 [] c = "5" -> 53 [] c = "6" -> 54 [] c = "7" -> 55
      [] c = "8" -> 56 [] c = "9" -> 57
      [] c = "F" -> 70 [] c = "I" -> 73 [] c = "T" -> 84
      [] c = "_" -> 95
      [] c = "a" -> 97 [] c = "b" -> 98 [] c = "d" -> 100 [] c = "e" -> 101
      [] c = "f" -> 102 [] c = "g" -> 103 [] c = "i" -> 105 [] c = "j" -> 106
      [] c = "k" -> 107 [] c = "l" -> 108 [] c = "m" -> 109 [] c = "n" -> 110
      [] c = "o" -> 111 [] c = "p" -> 112 [] c = "r" -> 114 [] c = "s" -> 115
      [] c = "t" -> 116 [] c = "u" -> 117 [] c = "v" -> 118 [] c = "x" -> 120
      [] c = "y" -> 121 [] c = "z" -> 122

LowerChar(c) ==
    CASE c = "F" -> "f" [] c = "I" -> "i" [] c = "T" -> "t" [] OTHER -> c

Lower(s) == [i \in 1..Len(s) |-> LowerChar(s[i])]

EndsWith(s, suf) ==
    /\ Len(s) >= Len(suf)
    /\ SubSeq(s, Len(s) - Len(suf) + 1, Len(s)) = suf

StartsWith(s, pre) ==
    /\ Len(s) >= Len(pre)
    /\ SubSeq(s, 1, Len(pre)) = pre

\* a < b for Python strings: code-point order, a proper prefix first
LexLess(a, b) ==
    \E k \in 1..Len(b) :
        /\ Len(a) >= k - 1
        /\ \A i \in 1..(k - 1) : a[i] = b[i]
        /\ \/ Len(a) = k - 1
           \/ Ord(a[k]) < Ord(b[k])

RECURSIVE SortSet(_)
SortSet(S) ==
    IF S = {} THEN <<>>
    ELSE LET m == CHOOSE x \in S : \A y \in S : x = y \/ LexLess(x, y)
         IN  <<m>> \o SortSet(S \ {m})

\* sorted() of a list without duplicates
Sorted(s) == SortSet(Range(s))

Digits == {"0", "1", "2", "3", "4", "5", "6", "7", "8", "9"}

DigitVal(c) == Ord(c) - 48

RECURSIVE DigitsValue(_)
DigitsValue(s) ==
    IF s = <<>> THEN 0
    ELSE IF s[Len(s)] = "_" THEN DigitsValue(SubSeq(s, 1, Len(s) - 1))
    ELSE 10 * DigitsValue(SubSeq(s, 1, Len(s) - 1)) + DigitVal(s[Len(s)])

\* int(s) for a str s: an optional sign, then digits, single underscores
\* allowed between digits. ok = FALSE stands for ValueError.
ParseInt(s) ==
    LET signed == Len(s) >= 1 /\ s[1] \in {"+", "-"}
        body   == IF signed THEN SubSeq(s, 2, Len(s)) ELSE s
        wellformed ==
            /\ Len(body) >= 1
            /\ \A i \in 1..Len(body) : body[i] \in Digits \cup {"_"}
            /\ body[1] # "_" /\ body[Len(body)] # "_"
            /\ \A i \in 1..(Len(body) - 1) : ~(body[i] = "_" /\ body[i + 1] = "_")
    IN  IF ~wellformed THEN [ok |-> FALSE, val |-> 0]
        ELSE [ok |-> TRUE,
              val |-> IF signed /\ s[1] = "-" THEN 0 - DigitsValue(body)
                      ELSE DigitsValue(body)]

\* Python's a % b for b # 0: the result takes the sign of b
PyMod(a, b) == IF b > 0 THEN a % b ELSE 0 - ((0 - a) % (0 - b))

\* os.path.splitext of a name without separators: the extension starts at
\* the last dot unless only dots precede it
SplitExt(p) ==
    LET dots == {i \in 1..Len(p) : p[i] = "."}
        d    == CHOOSE i \in dots : \A j \in dots : j <= i
    IN  IF dots # {} /\ (\E i \in 1..(d - 1) : p[i] # ".")
        THEN <<SubSeq(p, 1, d - 1), SubSeq(p, d, Len(p))>>
        ELSE <<p, <<>>>>

Stem(f) == SplitExt(f)[1]

----------------------------------------------------------------------------
\* Inputs of the model

Tif == <<".", "t", "i", "f">>
Tiff == <<".", "t", "i", "f", "f">>
TifUpper == <<".", "T", "I", "F">>
Txt == <<".", "t", "x", "t">>
Jpg == <<"j", "p", "g">>
Png == <<"p", "n", "g">>

\* folder contents for the pool: colliding stems, a non-numeric stem, a
\* resource-fork file and a file that is no TIFF
PoolNames ==
    { <<"1">> \o Tif, <<"1">> \o Tiff, <<"2">> \o TifUpper, <<"a">> \o Tif,
      <<".", "_", "2">> \o Tif, <<"1">> \o Txt }

PoolMods == { None, Some(<<"0">>), Some(<<"2">>), Some(<<"x">>) }

\* folder contents and modulo strings for the filter
FilterStems ==
    { <<"0">>, <<"1">>, <<"3">>, <<"0", "3">>, <<"-", "3">>,
      <<"1", "_", "2">>, <<"a">>, <<"-">> }

FilterNames ==
    {s \o Tif : s \in FilterStems}
        \cup { <<"9">> \o Tiff, <<".", "_", "3">> \o Tif, <<"3">> \o Txt, Tif }

FilterMods ==
    { None, Some(<<"3">>), Some(<<"2">>), Some(<<"0">>), Some(<<"-", "3">>),
      Some(<<"+", "1">>), Some(<<"a">>), Some(<<>>) }

Folders(names) == {S \in SUBSET names : Cardinality(S) <= MaxFiles}

----------------------------------------------------------------------------
\* convert_single_tif

DestName(file_path) == Stem(file_path) \o <<".">> \o output_format

\* the overwrite check left out: every job converts and writes
SkipExistingNever(dest_file_path) == FALSE

\* line 52: the job returns without writing
SkipExisting(dest_file_path) ==
    ~overwrite /\ dest_file_path \in DOMAIN dest_files

\* the try/except of lines 47 and 65 left out: the error leaves the job
ConvertOutcomeUncaught(file_path) ==
    IF file_path \in corrupt THEN "raised" ELSE "written"

\* lines 55-66: what the job does once it is past the overwrite check; an
\* error of imread/fromarray/save is printed and swallowed
ConvertOutcome(file_path) ==
    IF file_path \in corrupt THEN "error" ELSE "written"

----------------------------------------------------------------------------
\* convert_tif

\* line 81
IsCandidate(f) ==
    /\ EndsWith(Lower(f), Tif) \/ EndsWith(Lower(f), Tiff)
    /\ ~StartsWith(f, <<".", "_">>)

\* lines 80-81: os.path.join(source_folder, f) keeps the order of the names
ListTif(names) == SortSet({f \in names : IsCandidate(f)})

\* the stem parse as if it stood outside the try block of line 85: its
\* failure is an exception the handler never sees
RECURSIVE FilterFromUnguarded(_, _, _)
FilterFromUnguarded(files, m, i) ==
    IF i > Len(files) THEN [exc |-> "none", kept |-> <<>>]
    ELSE LET p == ParseInt(Stem(files[i]))
         IN  IF ~p.ok THEN [exc |-> "ValueError outside try", kept |-> <<>>]
             ELSE IF m = 0 THEN [exc |-> "ZeroDivisionError", kept |-> <<>>]
             ELSE LET rest == FilterFromUnguarded(files, m, i + 1)
                  IN  IF rest.exc # "none" THEN rest
                      ELSE [exc |-> "none",
                            kept |-> IF PyMod(p.val, m) = 0
                                     THEN <<files[i]>> \o rest.kept
                                     ELSE rest.kept]

\* line 87, evaluated left to right over the list: the first element whose
\* evaluation raises ends the comprehension
RECURSIVE FilterFrom(_, _, _)
FilterFrom(files, m, i) ==
    IF i > Len(files) THEN [exc |-> "none", kept |-> <<>>]
    ELSE LET p == ParseInt(Stem(files[i]))
         IN  IF ~p.ok THEN [exc |-> "ValueError", kept |-> <<>>]
             ELSE IF m = 0 THEN [exc |-> "ZeroDivisionError", kept |-> <<>>]
             ELSE LET rest == FilterFrom(files, m, i + 1)
                  IN  IF rest.exc # "none" THEN rest
                      ELSE [exc |-> "none",
                            kept |-> IF PyMod(p.val, m) = 0
                                     THEN <<files[i]>> \o rest.kept
                                     ELSE rest.kept]

\* the try block without its handler
HandledNever(exc) == FALSE

\* line 88: the handler of the try block
Handled(exc) == exc = "ValueError"

\* lines 84-89: exc is what leaves the try statement, files the list
\* tif_files after it
ModuloFilter(files, mv) ==
    IF mv = None THEN [exc |-> "none", files |-> files, warned |-> FALSE]
    ELSE LET m == ParseInt(mv[1])
             r == IF m.ok THEN FilterFrom(files, m.val, 1)
                  ELSE [exc |-> "ValueError", kept |-> <<>>]
         IN  IF r.exc = "none"
             THEN [exc |-> "none", files |-> r.kept, warned |-> FALSE]
             ELSE IF Handled(r.exc)
             THEN [exc |-> "none", files |-> files, warned |-> TRUE]
             ELSE [exc |-> r.exc, files |-> files, warned |-> FALSE]

\* a future taken for done as soon as a worker picked its job up
FutureDoneEarly(j) == futures[j].state # "pending"

\* a future is done once its job returned or raised
FutureDone(j) == futures[j].state = "done"

Running == {j \in 1..Len(futures) : futures[j].state = "running"}

WalkerIdle ==
    /\ root_directory = <<>> /\ root_is_dir = FALSE /\ target_types = {}
    /\ tree = {} /\ wpc = "idle" /\ stack = <<>> /\ cur = <<>> /\ dirs = <<>>
    /\ si = 1 /\ visited = {} /\ calls = <<>> /\ exit_status = "running"

ConvertStart(names, mods, fmts, flags) ==
    /\ source_files \in Folders(names)
    /\ corrupt \in SUBSET {f \in source_files : IsCandidate(f)}
    /\ output_format \in fmts
    /\ overwrite \in flags
    /\ mod_value \in mods
    /\ pc = "makedirs"
    /\ tif_files = <<>>
    /\ dest_exists = FALSE
    /\ dest_files = <<>>
    /\ futures = <<>>
    /\ fi = 1
    /\ log = {}
    /\ run = 1
    /\ dest_before = <<>>
    /\ writes = {}

\* lines 69-77
MakeDestFolder ==
    /\ pc = "makedirs"
    /\ dest_exists' = TRUE
    /\ pc' = "listdir"
    /\ UNCHANGED wvars
    /\ UNCHANGED <<source_files, corrupt, output_format, overwrite, mod_value,
                   tif_files, dest_files, futures, fi, log, run, dest_before,
                   writes>>

\* lines 80-81
ListTifFiles ==
    /\ pc = "listdir"
    /\ tif_files' = ListTif(source_files)
    /\ pc' = "filter"
    /\ UNCHANGED wvars
    /\ UNCHANGED <<source_files, corrupt, output_format, overwrite, mod_value,
                   dest_exists, dest_files, futures, fi, log, run, dest_before,
                   writes>>

\* lines 84-91, no exception leaves the try statement
FilterFiles ==
    /\ pc = "filter"
    /\ LET r == ModuloFilter(tif_files, mod_value)
       IN  /\ r.exc = "none"
           /\ tif_files' = Sorted(r.files)
           /\ log' = IF r.warned THEN log \cup {<<"Skipping modulo filtering">>}
                     ELSE log
    /\ pc' = "submit"
    /\ UNCHANGED wvars
    /\ UNCHANGED <<source_files, corrupt, output_format, overwrite, mod_value,
                   dest_exists, dest_files, futures, fi, run, dest_before,
                   writes>>

\* lines 84-89, an exception the handler does not name leaves convert_tif
FilterRaises ==
    /\ pc = "filter"
    /\ ModuloFilter(tif_files, mod_value).exc # "none"
    /\ pc' = "raised"
    /\ log' = log \cup {<<ModuloFilter(tif_files, mod_value).exc>>}
    /\ UNCHANGED wvars
    /\ UNCHANGED <<source_files, corrupt, output_format, overwrite, mod_value,
                   tif_files, dest_exists, dest_files, futures, fi, run,
                   dest_before, writes>>

\* line 94
SubmitAll ==
    /\ pc = "submit"
    /\ futures' = [i \in 1..Len(tif_files) |->
                     [file |-> tif_files[i], state |-> "pending",
                      outcome |-> "none"]]
    /\ fi' = 1
    /\ pc' = "results"
    /\ UNCHANGED wvars
    /\ UNCHANGED <<source_files, corrupt, output_format, overwrite, mod_value,
                   tif_files, dest_exists, dest_files, log, run, dest_before,
                   writes>>

\* a free worker takes the oldest pending job and runs lines 48-53
JobStart(j) ==
    /\ pc \in {"results", "unwind"}
    /\ j \in 1..Len(futures)
    /\ futures[j].state = "pending"
    /\ \A k \in 1..(j - 1) : futures[k].state # "pending"
    /\ Cardinality(Running) < NumWorkers
    /\ futures' = [futures EXCEPT ![j] =
                     IF SkipExisting(DestName(futures[j].file))
                     THEN [@ EXCEPT !.state = "done", !.outcome = "skipped"]
                     ELSE [@ EXCEPT !.state = "running"]]
    /\ UNCHANGED wvars
    /\ UNCHANGED <<source_files, corrupt, output_format, overwrite, mod_value,
                   pc, tif_files, dest_exists, dest_files, fi, log, run,
                   dest_before, writes>>

\* the job runs lines 55-66 and ends
JobFinish(j) ==
    /\ pc \in {"results", "unwind"}
    /\ j \in 1..Len(futures)
    /\ futures[j].state = "running"
    /\ LET f == futures[j].file
           o == ConvertOutcome(f)
       IN  /\ futures' = [futures EXCEPT ![j] =
                            [@ EXCEPT !.state = "done", !.outcome = o]]
           /\ dest_files' = IF o = "written"
                            THEN (DestName(f) :> f) @@ dest_files
                            ELSE dest_files
           /\ writes' = IF o = "written" THEN writes \cup {DestName(f)}
                        ELSE writes
           /\ log' = IF o = "error" THEN log \cup {<<"Error processing", f>>}
                     ELSE log
    /\ UNCHANGED wvars
    /\ UNCHANGED <<source_files, corrupt, output_format, overwrite, mod_value,
                   pc, tif_files, dest_exists, fi, run, dest_before>>

\* lines 95-96: future.result() returns the job's result or raises what
\* the job raised
WaitResult ==
    /\ pc = "results"
    /\ fi <= Len(futures)
    /\ FutureDone(fi)
    /\ IF futures[fi].outcome = "raised"
       THEN pc' = "unwind" /\ fi' = fi
       ELSE pc' = pc /\ fi' = fi + 1
    /\ UNCHANGED wvars
    /\ UNCHANGED <<source_files, corrupt, output_format, overwrite, mod_value,
                   tif_files, dest_exists, dest_files, futures, log, run,
                   dest_before, writes>>

\* line 93: leaving the with block calls executor.shutdown(wait=True)
ExecutorExit ==
    /\ \/ pc = "results" /\ fi > Len(futures)
       \/ pc = "unwind"
    /\ \A j \in 1..Len(futures) : FutureDone(j)
    /\ pc' = IF pc = "unwind" THEN "raised" ELSE "returned"
    /\ UNCHANGED wvars
    /\ UNCHANGED <<source_files, corrupt, output_format, overwrite, mod_value,
                   tif_files, dest_exists, dest_files, futures, fi, log, run,
                   dest_before, writes>>

\* convert_tif is called again on the same, unchanged source folder with
\* the same arguments
CallAgain ==
    /\ pc \in {"returned", "raised"}
    /\ run < MaxRuns
    /\ run' = run + 1
    /\ pc' = "makedirs"
    /\ tif_files' = <<>>
    /\ futures' = <<>>
    /\ fi' = 1
    /\ log' = {}
    /\ dest_before' = dest_files
    /\ writes' = {}
    /\ UNCHANGED wvars
    /\ UNCHANGED <<source_files, corrupt, output_format, overwrite, mod_value,
                   dest_exists, dest_files>>

Next ==
    \/ MakeDestFolder
    \/ ListTifFiles
    \/ FilterFiles
    \/ FilterRaises
    \/ SubmitAll
    \/ \E j \in 1..MaxFiles : JobStart(j)
    \/ \E j \in 1..MaxFiles : JobFinish(j)
    \/ WaitResult
    \/ ExecutorExit
    \/ CallAgain

\* one folder, its files failing or not, the pool at work, two calls
Init == ConvertStart(PoolNames, PoolMods, {Jpg, Png}, BOOLEAN) /\ WalkerIdle
Spec == Init /\ [][Next]_vars

\* many file names and modulo strings, no failing file
InitFilter == ConvertStart(FilterNames, FilterMods, {Jpg}, {TRUE}) /\ WalkerIdle
SpecFilter == InitFilter /\ [][Next]_vars

----------------------------------------------------------------------------
\* Properties of convert_tif

Candidates == {f \in source_files : IsCandidate(f)}
Dispatched == {futures[j].file : j \in 1..Len(futures)}
ModGiven == mod_value # None
ModIsInt == ModGiven /\ ParseInt(mod_value[1]).ok
ModVal == ParseInt(mod_value[1]).val
BadStem(f) == ~ParseInt(Stem(f)).ok
StemVal(f) == ParseInt(Stem(f)).val
PastFilter == pc \in {"submit", "results", "unwind", "returned"}
PoolOpen == pc \in {"results", "unwind", "returned"}
Warned == <<"Skipping modulo filtering">> \in log
FirstCandidate == CHOOSE f \in Candidates : \A g \in Candidates : f = g \/ LexLess(f, g)
Multiple(v, m) == \E k \in -20..20 : v = k * m

\* C1: an error raised while one candidate is converted stays inside its
\* job: convert_tif raises only before anything was dispatched, the pool
\* phase can always take a step until the call has returned, and at the
\* return every candidate that does not fail was written to the destination
\* or skipped by the overwrite rule, every failing one logged
C1_ErrorsStayInJob ==
    /\ pc = "raised" => futures = <<>>
    /\ pc # "unwind"
    /\ pc = "results" => ENABLED Next
    /\ pc = "returned" =>
         /\ Dispatched = Range(tif_files)
         /\ \A j \in 1..Len(futures) :
              LET f == futures[j].file
                  d == Stem(f) \o <<".">> \o output_format
              IN  IF f \in corrupt
                  THEN futures[j].outcome \in {"error", "skipped"}
                       /\ (futures[j].outcome = "error"
                              => <<"Error processing", f>> \in log)
                  ELSE \/ futures[j].outcome = "written" /\ d \in writes
                          /\ d \in DOMAIN dest_files
                       \/ futures[j].outcome = "skipped" /\ ~overwrite
                          /\ d \in DOMAIN dest_files

C1_Witness ==
    /\ pc = "returned"
    /\ \E j \in 1..Len(futures) :
         futures[j].file \in corrupt /\ futures[j].outcome = "error"
    /\ \E j \in 1..Len(futures) :
         futures[j].file \notin corrupt /\ futures[j].outcome = "written"

\* C2: convert_tif has returned only when every job it submitted is done
C2_ReturnAfterAllJobs ==
    pc = "returned" =>
        \A j \in 1..Len(futures) : futures[j].state = "done"

C2_Witness ==
    /\ pc = "returned"
    /\ Len(futures) >= 2
    /\ \A j \in 1..Len(futures) : futures[j].outcome \in {"written", "error"}

\* C3: with overwrite false, a further call on the unchanged source folder
\* writes nothing and leaves the destination as the previous call left it
C3_SecondRunChangesNothing ==
    (run >= 2 /\ ~overwrite) =>
        /\ writes = {}
        /\ dest_files = dest_before

C3_Witness ==
    /\ run = 2 /\ ~overwrite /\ pc = "returned"
    /\ dest_files # <<>>
    /\ \E j \in 1..Len(futures) : futures[j].outcome = "skipped"

\* C10 as stated: no two jobs dispatched by one call have the same
\* destination file name
C10_DistinctDestinations ==
    \A i, j \in 1..Len(futures) :
        i # j => DestName(futures[i].file) # DestName(futures[j].file)

\* C4 as stated: an integer modulo and a candidate stem that is no integer
\* abort the call, and nothing is dispatched
C4_StemErrorIsFatal ==
    (ModIsInt /\ \E f \in Candidates : BadStem(f)) =>
        ~PastFilter /\ futures = <<>>

\* C4 amended: the stem's ValueError is caught by the handler of line 88:
\* the call goes on, the warning is printed and all candidates, unfiltered,
\* are dispatched. Only modulo 0 with a first candidate whose stem parses
\* aborts, by the division of line 87.
C4_StemErrorSkipsFilter ==
    (ModIsInt /\ \E f \in Candidates : BadStem(f)) =>
        IF ModVal # 0 \/ BadStem(FirstCandidate)
        THEN /\ pc # "raised"
             /\ PastFilter => Warned /\ Range(tif_files) = Candidates
             /\ pc = "submit" => ENABLED SubmitAll
             /\ PoolOpen => Dispatched = Candidates
        ELSE ~PastFilter

C4_Witness ==
    /\ ModIsInt /\ ModVal # 0
    /\ \E f \in Candidates : BadStem(f)
    /\ \E f \in Candidates : ~BadStem(f) /\ ~Multiple(StemVal(f), ModVal)
    /\ pc = "returned"
    /\ Dispatched = Candidates

\* C5: a modulo string that is no integer never makes convert_tif raise:
\* the warning is printed and exactly the unfiltered candidates are
\* dispatched
C5_BadModuloSkipsFilter ==
    (ModGiven /\ ~ModIsInt) =>
        /\ pc # "raised"
        /\ PastFilter => Warned /\ Range(tif_files) = Candidates
        /\ PoolOpen => Dispatched = Candidates

C5_Witness ==
    /\ ModGiven /\ ~ModIsInt
    /\ pc = "returned"
    /\ Len(futures) >= 2
    /\ Dispatched = Candidates

\* C6 as stated: for every modulo that parses as an integer and candidates
\* whose stems are all integers, the call dispatches exactly the candidates
\* whose stem is a multiple of the modulo
C6_ModuloFilterExact ==
    (ModIsInt /\ \A f \in Candidates : ~BadStem(f)) =>
        /\ pc # "raised"
        /\ PastFilter =>
             Range(tif_files) = {f \in Candidates : Multiple(StemVal(f), ModVal)}
        /\ PoolOpen =>
             Dispatched = {f \in Candidates : Multiple(StemVal(f), ModVal)}

\* the same for a modulo other than 0
C6_NonZeroModuloFilterExact ==
    (ModIsInt /\ ModVal # 0 /\ \A f \in Candidates : ~BadStem(f)) =>
        /\ pc # "raised"
        /\ PastFilter =>
             Range(tif_files) = {f \in Candidates : Multiple(StemVal(f), ModVal)}
        /\ PoolOpen =>
             Dispatched = {f \in Candidates : Multiple(StemVal(f), ModVal)}

----------------------------------------------------------------------------
\* process_specific_folders and __main__

Slash == <<"/">>
Zarr == <<".", "z", "a", "r", "r">>
SuffixJpg == <<"_", "j", "p", "g">>
SuffixPng == <<"_", "p", "n", "g">>
Layers == <<"l", "a", "y", "e", "r", "s">>
Volumes == <<"v", "o", "l", "u", "m", "e", "s">>
MaskedVolumes == <<"m", "a", "s", "k", "e", "d", "_">> \o Volumes

\* names a directory of the tree may have
DirNames ==
    { Layers, Volumes, MaskedVolumes, <<"a">>, <<"s">> \o Zarr,
      <<"a">> \o SuffixPng }

\* values of sys.argv[1]; "./" is the default of line 122
RootChoices ==
    { <<".", "/">>, <<"s">> \o Zarr, <<"s">> \o Zarr \o Slash, Volumes, Layers }

\* lines 123 and 133-135: one of the three names, or all three for "all"
TargetChoices ==
    { {Layers}, {Volumes}, {MaskedVolumes}, {Volumes, MaskedVolumes, Layers} }

Front(s) == SubSeq(s, 1, Len(s) - 1)
Last(s) == s[Len(s)]

Extensions(t) ==
    {<<d>> : d \in DirNames}
        \cup {q \o <<d>> : q \in {x \in t : Len(x) < MaxDepth}, d \in DirNames}

RECURSIVE TreesUpTo(_)
TreesUpTo(n) ==
    IF n = 0 THEN {{}}
    ELSE LET prev == TreesUpTo(n - 1)
         IN  prev \cup UNION {{t \cup {q} : q \in Extensions(t)} : t \in prev}

Perms(S) ==
    {p \in [1..Cardinality(S) -> S] :
        \A i, j \in 1..Cardinality(S) : i # j => p[i] # p[j]}

\* os.path.join(a, b) for a relative name b
PathJoin(a, b) ==
    IF a = <<>> \/ EndsWith(a, Slash) THEN a \o b ELSE a \o Slash \o b

\* os.path.basename(p): what follows the last "/"
Basename(p) ==
    LET seps == {i \in 1..Len(p) : p[i] = "/"}
        k    == CHOOSE i \in seps : \A j \in seps : j <= i
    IN  IF seps = {} THEN p ELSE SubSeq(p, k + 1, Len(p))

\* the path string os.walk yields as root for directory n: the top as it
\* was given, each level below joined to its parent's path
RECURSIVE PathOf(_)
PathOf(n) ==
    IF n = <<>> THEN root_directory ELSE PathJoin(PathOf(Front(n)), Last(n))

\* the subdirectories os.scandir finds in directory n
SubDirNames(n) ==
    {Last(m) : m \in {x \in tree : Len(x) = Len(n) + 1 /\ Front(x) = n}}

\* os.walk as if its top's scandir error were raised (an onerror that raises)
WalkTopStrict == IF root_is_dir THEN "yield" ELSE "raise"

\* line 99: os.walk is called without onerror, so a top that cannot be
\* scanned is skipped silently and the generator yields nothing
WalkTop == IF root_is_dir THEN "yield" ELSE "nothing"

\* line 101
IsZarr(root) == EndsWith(root, Zarr)

\* line 111 with the '_png' suffix forgotten
IsOutputFolderJpgOnly(sub_dir) == EndsWith(sub_dir, SuffixJpg)

\* line 111
IsOutputFolder(sub_dir) ==
    EndsWith(sub_dir, SuffixJpg) \/ EndsWith(sub_dir, SuffixPng)

\* line 105
IsTarget(root) == Basename(root) \in target_types

\* lines 69-77 of convert_tif, output_path being None (line 128): the
\* folder source_folder + suffix exists after the call. For the top, that
\* folder lies beside the tree, not in it.
DestSuffix == IF output_format = Jpg THEN SuffixJpg ELSE SuffixPng

TreeAfterConvert(n) ==
    IF n = <<>> THEN tree
    ELSE tree \cup {Front(n) \o <<Last(n) \o DestSuffix>>}

ConvertIdle ==
    /\ source_files = {} /\ corrupt = {} /\ overwrite = FALSE
    /\ mod_value = None /\ pc = "idle" /\ tif_files = <<>>
    /\ dest_exists = FALSE /\ dest_files = <<>> /\ futures = <<>> /\ fi = 1
    /\ log = {} /\ run = 1 /\ dest_before = <<>> /\ writes = {}

cvarsRest == <<source_files, corrupt, overwrite, mod_value, pc, tif_files,
               dest_exists, dest_files, futures, fi, log, run, dest_before,
               writes>>

InitWalk ==
    /\ ConvertIdle
    /\ output_format = Jpg
    /\ root_directory \in RootChoices
    /\ root_is_dir \in BOOLEAN
    /\ target_types \in TargetChoices
    /\ tree \in IF root_is_dir THEN TreesUpTo(MaxDirs) ELSE {{}}
    /\ wpc = "start"
    /\ stack = <<>>
    /\ cur = <<>>
    /\ dirs = <<>>
    /\ si = 1
    /\ visited = {}
    /\ calls = <<>>
    /\ exit_status = "running"

\* lines 150 and 99: process_specific_folders starts the walk
WalkStart ==
    /\ wpc = "start"
    /\ stack' = IF WalkTop = "yield" THEN << <<>> >> ELSE <<>>
    /\ wpc' = IF WalkTop = "raise" THEN "raised" ELSE "walk"
    /\ exit_status' = IF WalkTop = "raise" THEN "1" ELSE exit_status
    /\ UNCHANGED <<root_directory, root_is_dir, target_types, tree, cur, dirs,
                   si, visited, calls>>
    /\ UNCHANGED cvars

\* line 99: os.walk scans the next directory and yields it; scandir returns
\* the subdirectories in no particular order
WalkYield ==
    /\ wpc = "walk"
    /\ stack # <<>>
    /\ cur' = Head(stack)
    /\ stack' = Tail(stack)
    /\ dirs' \in Perms(SubDirNames(Head(stack)))
    /\ visited' = visited \cup {Head(stack)}
    /\ wpc' = "body"
    /\ UNCHANGED <<root_directory, root_is_dir, target_types, tree, si, calls,
                   exit_status>>
    /\ UNCHANGED cvars

\* lines 101-103
PruneZarr ==
    /\ wpc = "body"
    /\ IsZarr(PathOf(cur))
    /\ dirs' = <<>>
    /\ wpc' = "walk"
    /\ UNCHANGED <<root_directory, root_is_dir, target_types, tree, stack, cur,
                   si, visited, calls, exit_status>>
    /\ UNCHANGED cvars

\* line 105 false: os.walk goes on into dirs
NoMatch ==
    /\ wpc = "body"
    /\ ~IsZarr(PathOf(cur))
    /\ ~IsTarget(PathOf(cur))
    /\ stack' = [i \in 1..Len(dirs) |-> cur \o <<dirs[i]>>] \o stack
    /\ wpc' = "walk"
    /\ UNCHANGED <<root_directory, root_is_dir, target_types, tree, cur, dirs,
                   si, visited, calls, exit_status>>
    /\ UNCHANGED cvars

\* lines 105, 109, 115-119: a matched directory named layers is converted
\* itself; an exception of convert_tif leaves the walk and the program
MatchLayers ==
    /\ wpc = "body"
    /\ ~IsZarr(PathOf(cur))
    /\ IsTarget(PathOf(cur))
    /\ Basename(PathOf(cur)) = Layers
    /\ calls' = Append(calls, cur)
    /\ tree' = TreeAfterConvert(cur)
    /\ \E returns \in BOOLEAN :
         IF returns
         THEN /\ stack' = [i \in 1..Len(dirs) |-> cur \o <<dirs[i]>>] \o stack
              /\ wpc' = "walk"
              /\ exit_status' = exit_status
         ELSE /\ stack' = stack
              /\ wpc' = "raised"
              /\ exit_status' = "1"
    /\ UNCHANGED <<root_directory, root_is_dir, target_types, cur, dirs, si,
                   visited>>
    /\ UNCHANGED cvars

\* lines 105, 109-110: a matched directory of another name
MatchVolumes ==
    /\ wpc = "body"
    /\ ~IsZarr(PathOf(cur))
    /\ IsTarget(PathOf(cur))
    /\ Basename(PathOf(cur)) # Layers
    /\ si' = 1
    /\ wpc' = "subdirs"
    /\ UNCHANGED <<root_directory, root_is_dir, target_types, tree, stack, cur,
                   dirs, visited, calls, exit_status>>
    /\ UNCHANGED cvars

\* line 111 false
SubDirSkip ==
    /\ wpc = "subdirs"
    /\ si <= Len(dirs)
    /\ IsOutputFolder(dirs[si])
    /\ si' = si + 1
    /\ UNCHANGED <<root_directory, root_is_dir, target_types, tree, wpc, stack,
                   cur, dirs, visited, calls, exit_status>>
    /\ UNCHANGED cvars

\* lines 111-114
SubDirConvert ==
    /\ wpc = "subdirs"
    /\ si <= Len(dirs)
    /\ ~IsOutputFolder(dirs[si])
    /\ calls' = Append(calls, cur \o <<dirs[si]>>)
    /\ tree' = TreeAfterConvert(cur \o <<dirs[si]>>)
    /\ \E returns \in BOOLEAN :
         IF returns
         THEN si' = si + 1 /\ wpc' = wpc /\ exit_status' = exit_status
         ELSE si' = si /\ wpc' = "raised" /\ exit_status' = "1"
    /\ UNCHANGED <<root_directory, root_is_dir, target_types, stack, cur, dirs,
                   visited>>
    /\ UNCHANGED cvars

\* lines 117-119, then os.walk goes on into dirs
SubDirsDone ==
    /\ wpc = "subdirs"
    /\ si > Len(dirs)
    /\ stack' = [i \in 1..Len(dirs) |-> cur \o <<dirs[i]>>] \o stack
    /\ wpc' = "walk"
    /\ UNCHANGED <<root_directory, root_is_dir, target_types, tree, cur, dirs,
                   si, visited, calls, exit_status>>
    /\ UNCHANGED cvars

\* os.walk is exhausted; lines 151-153 run and the program ends normally
WalkEnd ==
    /\ wpc = "walk"
    /\ stack = <<>>
    /\ wpc' = "done"
    /\ exit_status' = "0"
    /\ UNCHANGED <<root_directory, root_is_dir, target_types, tree, stack, cur,
                   dirs, si, visited, calls>>
    /\ UNCHANGED cvars

NextWalk ==
    \/ WalkStart
    \/ WalkYield
    \/ PruneZarr
    \/ NoMatch
    \/ MatchLayers
    \/ MatchVolumes
    \/ SubDirSkip
    \/ SubDirConvert
    \/ SubDirsDone
    \/ WalkEnd

SpecWalk == InitWalk /\ [][NextWalk]_vars

----------------------------------------------------------------------------
\* Properties of the walk

\* the name of a directory of the tree; the top's is the last component of
\* root_directory, a trailing "/" put aside
RECURSIVE StripSlashes(_)
StripSlashes(p) ==
    IF p # <<>> /\ p[Len(p)] = "/" THEN StripSlashes(Front(p)) ELSE p

DirName(n) ==
    IF n = <<>>
    THEN LET p == StripSlashes(root_directory)
             seps == {i \in 1..Len(p) : p[i] = "/"}
         IN  IF seps = {} THEN p
             ELSE SubSeq(p, (CHOOSE i \in seps : \A j \in seps : j <= i) + 1, Len(p))
    ELSE n[Len(n)]

NameEndsIn(n, suf) ==
    /\ Len(DirName(n)) >= Len(suf)
    /\ SubSeq(DirName(n), Len(DirName(n)) - Len(suf) + 1, Len(DirName(n))) = suf

BelowZarr(n) == \E k \in 0..(Len(n) - 1) : NameEndsIn(SubSeq(n, 1, k), Zarr)

Count(n) == Cardinality({i \in 1..Len(calls) : calls[i] = n})

VolumeTypes == {Volumes, MaskedVolumes}

\* visited and passing the test of line 105
Matched(n) ==
    /\ n \in visited
    /\ Basename(PathOf(n)) \in target_types

\* C7 as stated: no directory below a directory whose name ends in .zarr
\* is visited by the walk or passed to convert_tif
C7_NothingBelowZarr ==
    \A n \in visited \cup Range(calls) : ~BelowZarr(n)

\* the same when root_directory is given without a trailing "/"
C7_NothingBelowZarrPlainRoot ==
    ~EndsWith(root_directory, Slash) =>
        \A n \in visited \cup Range(calls) : ~BelowZarr(n)

\* C8 as stated: in a finished run, for a visited target directory named
\* volumes or masked_volumes, convert_tif was invoked exactly once for each
\* immediate subdirectory without the _jpg/_png suffix, never for one with
\* it, and not for the directory itself; a matched layers directory was
\* converted
C8_OncePerSubdirOnly ==
    wpc = "done" =>
        \A n \in visited :
            /\ (Matched(n) /\ Basename(PathOf(n)) \in VolumeTypes) =>
                 /\ Count(n) = 0
                 /\ \A c \in {x \in tree : Len(x) = Len(n) + 1 /\ Front(x) = n} :
                      Count(c) = IF NameEndsIn(c, SuffixJpg) \/ NameEndsIn(c, SuffixPng)
                                 THEN 0 ELSE 1
            /\ (Matched(n) /\ Basename(PathOf(n)) = Layers) => Count(n) >= 1

\* a directory is converted on its own account when it is a matched layers
\* directory, and on its parent's account when the parent is a matched
\* directory of another name and it carries no output suffix
Direct(c) == IF Matched(c) /\ Basename(PathOf(c)) = Layers THEN 1 ELSE 0

AsSubDir(c) ==
    IF /\ c # <<>>
       /\ Matched(Front(c))
       /\ Basename(PathOf(Front(c))) \in VolumeTypes
       /\ ~(NameEndsIn(c, SuffixJpg) \/ NameEndsIn(c, SuffixPng))
    THEN 1 ELSE 0

\* C8 amended: in a finished run every directory was passed to convert_tif
\* once for each of the two accounts that apply to it and not otherwise: a
\* subdirectory of a matched volumes/masked_volumes directory once on that
\* account (never with a _jpg/_png suffix), a matched layers directory
\* once directly; so a matched volumes directory lying directly in another
\* one is converted itself, and a layers subdirectory that is a target too
\* is converted twice
C8_OncePerAccount ==
    wpc = "done" =>
        /\ \A c \in tree \cup {<<>>} : Count(c) = Direct(c) + AsSubDir(c)
        /\ \A i \in 1..Len(calls) : calls[i] \in tree \cup {<<>>}

C8_Witness ==
    /\ wpc = "done"
    /\ \E n \in visited :
         /\ Matched(n) /\ Basename(PathOf(n)) \in VolumeTypes
         /\ \E c \in tree : Front(c) = n /\ NameEndsIn(c, SuffixPng) /\ Count(c) = 0
         /\ \E c \in tree : Front(c) = n /\ Count(c) = 1

\* C9 as stated: a root that is no directory makes the run end with an
\* error, never normally
C9_MissingRootIsFatal ==
    ~root_is_dir => (wpc # "done" /\ exit_status # "0")

\* C9 amended: a root that is no directory raises nothing: os.walk yields
\* no directory, no folder is visited or converted, and the run ends
\* normally
C9_MissingRootEndsNormally ==
    ~root_is_dir =>
        /\ visited = {} /\ calls = <<>>
        /\ wpc \in {"start", "walk", "done"}
        /\ wpc = "start" => ENABLED WalkStart
        /\ wpc = "walk" => ENABLED WalkEnd
        /\ wpc = "done" <=> exit_status = "0"
        /\ exit_status # "1"

C9_Witness ==
    ~root_is_dir /\ wpc = "done" /\ exit_status = "0" /\ visited = {}

====
